---- MODULE Spec2Model ----
(***************************************************************************)
(* The HTML tokenizer of saba_core_deprecated/src/renderer/html/token.rs.  *)
(* One action per arm of the `match self.state` in HtmlTokenizer::next;    *)
(* one step of the model is one iteration of the `loop` of next().         *)
(* Characters are one-character strings, strings are sequences of them.    *)
(* Positions are the 0-based `pos` of the code; input[pos] of the code is  *)
(* input[pos + 1] here.                                                    *)
(* The Url record of saba_core/src/url.rs is modelled next to it: parse is *)
(* one action.                                                             *)
(***************************************************************************)
EXTENDS Integers, Sequences, FiniteSets, TLC

VARIABLES input, state, pos, reconsume, latest_token, buf, pc, abort, ret, out, tag_at,
          reads, url, host, port, path, searchpart, result

\* the tokenizer, with the history of its pulls
tvars == <<input, state, pos, reconsume, latest_token, buf, pc, abort, ret, out, tag_at, reads>>

\* the Url record and the result of its last parse
uvars == <<url, host, port, path, searchpart, result>>

vars == <<tvars, uvars>>

\* ------------------------------------------------------------------ bounds
\* longest free tail of an input
MaxTail == 3

\* longest free tail of a URL
MaxUrlTail == 3

\* ------------------------------------------------------- strings (url.rs)
\* the literal "http://"
Http == <<"h", "t", "t", "p", ":", "/", "/">>

\* str::starts_with
starts_with(s, pat) == Len(s) >= Len(pat) /\ SubSeq(s, 1, Len(pat)) = pat

\* str::contains
contains(s, pat) ==
    \E i \in 1..(Len(s) - Len(pat) + 1) : SubSeq(s, i, i + Len(pat) - 1) = pat

\* str::trim_start_matches: the prefix is removed as often as it is there
RECURSIVE trim_start_matches(_, _)
trim_start_matches(s, pat) ==
    IF starts_with(s, pat)
    THEN trim_start_matches(SubSeq(s, Len(pat) + 1, Len(s)), pat)
    ELSE s

\* str::find for a character: the 0-based index of the first c, -1 for Option::None
find(s, c) ==
    IF \E i \in 1..Len(s) : s[i] = c
    THEN (CHOOSE i \in 1..Len(s) : s[i] = c /\ \A j \in 1..(i - 1) : s[j] # c) - 1
    ELSE -1

\* str::splitn(2, c) collected: one part without c, else the parts around the first c
splitn2(s, c) ==
    IF find(s, c) < 0 THEN <<s>>
    ELSE <<SubSeq(s, 1, find(s, c)), SubSeq(s, find(s, c) + 2, Len(s))>>

\* ------------------------------------------------------------ Url
\* the fields of a Url as a value (the clone parse returns)
Url(u, h, po, pa, se) ==
    [url |-> u, host |-> h, port |-> po, path |-> pa, searchpart |-> se]

\* Result<Url, String>; NotParsed before parse has been called
Ok(v) == [kind |-> "Ok", err |-> "", val |-> v]

Err(e) == [kind |-> "Err", err |-> e, val |-> Url(<<>>, <<>>, <<>>, <<>>, <<>>)]

NotParsed == [kind |-> "NotParsed", err |-> "", val |-> Url(<<>>, <<>>, <<>>, <<>>, <<>>)]

\* Url::new
Url_new(u) ==
    /\ url = u
    /\ host = <<>>
    /\ port = <<>>
    /\ path = <<>>
    /\ searchpart = <<>>
    /\ result = NotParsed

\* is_http that wants the scheme at the start of the URL
is_http_Prefix(u) == starts_with(u, Http)

is_http(u) == contains(u, Http)

url_parts(u) == splitn2(trim_start_matches(u, Http), "/")

extract_host(u) ==
    IF find(url_parts(u)[1], ":") >= 0
    THEN SubSeq(url_parts(u)[1], 1, find(url_parts(u)[1], ":"))
    ELSE url_parts(u)[1]

\* extract_port that keeps the ':' in front of the port
extract_port_Colon(u) ==
    IF find(url_parts(u)[1], ":") >= 0
    THEN SubSeq(url_parts(u)[1], find(url_parts(u)[1], ":") + 1, Len(url_parts(u)[1]))
    ELSE <<"8", "0">>

extract_port(u) ==
    IF find(url_parts(u)[1], ":") >= 0
    THEN SubSeq(url_parts(u)[1], find(url_parts(u)[1], ":") + 2, Len(url_parts(u)[1]))
    ELSE <<"8", "0">>

path_and_searchpart(u) == splitn2(url_parts(u)[2], "?")

extract_path(u) ==
    IF Len(url_parts(u)) < 2 THEN <<>>
    ELSE path_and_searchpart(u)[1]

extract_searchpart(u) ==
    IF Len(url_parts(u)) < 2 THEN <<>>
    ELSE IF Len(path_and_searchpart(u)) < 2 THEN <<>>
    ELSE path_and_searchpart(u)[2]

\* parse that fills in the fields before it tests the scheme
parse_ExtractFirst ==
    /\ host' = extract_host(url)
    /\ port' = extract_port(url)
    /\ path' = extract_path(url)
    /\ searchpart' = extract_searchpart(url)
    /\ result' = IF ~is_http(url) THEN Err("Only HTTP scheme is supported.")
                 ELSE Ok(Url(url, host', port', path', searchpart'))
    /\ UNCHANGED url
    /\ UNCHANGED tvars

\* Url::parse
parse ==
    /\ IF ~is_http(url)
       THEN /\ result' = Err("Only HTTP scheme is supported.")
            /\ UNCHANGED <<url, host, port, path, searchpart>>
       ELSE /\ host' = extract_host(url)
            /\ port' = extract_port(url)
            /\ path' = extract_path(url)
            /\ searchpart' = extract_searchpart(url)
            /\ result' = Ok(Url(url, host', port', path', searchpart'))
            /\ UNCHANGED url
    /\ UNCHANGED tvars

\* the characters a URL is split at, a letter and a digit
UrlAlphabet == {"a", "8", ":", "/", "?"}

\* a URL is one of these openings followed by any tail of at most MaxUrlTail
\* characters: no scheme, the scheme once, twice and not at the start, and a
\* host with a port and the start of a path
UrlStems ==
    { <<>>,
      Http,
      Http \o Http,
      <<"a">> \o Http,
      Http \o <<"a", ":", "8", "/", "a">> }

UrlTails == UNION {[1..k -> UrlAlphabet] : k \in 0..MaxUrlTail}

UrlInputs == {s \o t : s \in UrlStems, t \in UrlTails}

\* ------------------------------------------------------------ characters
Alphabet == {"<", "/", ">", " ", "=", "\"", "'", "a", "A", "1"}

UpperCase == {"A"}

LowerCase == {"a"}

is_ascii_uppercase(c) == c \in UpperCase

is_ascii_alphabetic(c) == c \in UpperCase \cup LowerCase

to_ascii_lowercase(c) == IF c = "A" THEN "a" ELSE c

\* ---------------------------------------------------------------- tokens
Tok(k, t, s, a, ch) == [kind |-> k, tag |-> t, self_closing |-> s, attributes |-> a, c |-> ch]

StartTag(t, s, a) == Tok("StartTag", t, s, a, "")

EndTag(t) == Tok("EndTag", t, FALSE, <<>>, "")

Char(ch) == Tok("Char", <<>>, FALSE, <<>>, ch)

Eof == Tok("Eof", <<>>, FALSE, <<>>, "")

\* Option::None, as the value of latest_token and as the result of a pull
None == Tok("None", <<>>, FALSE, <<>>, "")

\* the value of ret before the first pull has returned
NotPulled == Tok("NotPulled", <<>>, FALSE, <<>>, "")

\* the result of the helper `who` when its assert! or panic! fired
Panicked(who) == Tok("Panicked", <<>>, FALSE, <<>>, who)

IsPanicked(t) == t.kind = "Panicked"

\* Attribute::new and Attribute::add_char
Attribute_new == [name |-> <<>>, value |-> <<>>]

add_char(a, c, is_name) ==
    IF is_name THEN [a EXCEPT !.name = Append(@, c)]
               ELSE [a EXCEPT !.value = Append(@, c)]

\* --------------------------------------------------------------- helpers
is_eof(p) == p > Len(input)

\* create_tag that makes a StartTag whatever it is asked for
create_tag_StartTag(start_tag_token) == StartTag(<<>>, FALSE, <<>>)

create_tag(start_tag_token) ==
    IF start_tag_token THEN StartTag(<<>>, FALSE, <<>>) ELSE EndTag(<<>>)

append_tag_name(t, c) ==
    IF t.kind \in {"StartTag", "EndTag"} THEN [t EXCEPT !.tag = Append(@, c)]
    ELSE Panicked("append_tag_name")

start_new_attribute(t) ==
    IF t.kind = "StartTag" THEN [t EXCEPT !.attributes = Append(@, Attribute_new)]
    ELSE Panicked("start_new_attribute")

append_attribute(t, c, is_name) ==
    IF t.kind = "StartTag" /\ Len(t.attributes) > 0
    THEN [t EXCEPT !.attributes[Len(t.attributes)] = add_char(@, c, is_name)]
    ELSE Panicked("append_attribute")

\* set_self_closing_flag that checks the token but leaves the flag as it was
set_self_closing_flag_Unset(t) ==
    IF t.kind = "StartTag" THEN t
    ELSE Panicked("set_self_closing_flag")

set_self_closing_flag(t) ==
    IF t.kind = "StartTag" THEN [t EXCEPT !.self_closing = TRUE]
    ELSE Panicked("set_self_closing_flag")

\* the token take_latest_token returns; latest_token becomes None
take_latest_token(t) ==
    IF t.kind = "None" THEN Panicked("take_latest_token") ELSE t

\* ------------------------------------------------------------ one read
\* `match self.reconsume { true => reconsume_input(), false => consume_next_input() }`
CanRead == IF reconsume THEN pos >= 1 /\ pos <= Len(input) ELSE pos < Len(input)

\* the character delivered to the state machine
cur == IF reconsume THEN input[pos] ELSE input[pos + 1]

\* pos after a read that advances whether the latch is set or not
npos_Advance == pos + 1

\* pos after the read
npos == IF reconsume THEN pos ELSE pos + 1

\* how often input[npos - 1] has been delivered in succession, this read included
nreads == IF reconsume THEN reads + 1 ELSE 1

\* -------------------------------------------------- ends of an iteration
\* a helper panicked after the read: the process aborts.  The fields of an
\* aborted tokenizer are dropped with it; the model freezes them as the read
\* left them.
Abort(who) ==
    /\ pc' = "aborted"
    /\ abort' = who
    /\ pos' = npos
    /\ reconsume' = FALSE
    /\ reads' = nreads
    /\ UNCHANGED <<input, state, latest_token, buf, ret, out, tag_at>>
    /\ UNCHANGED uvars

\* `continue`, or falling out of the match: the loop runs again
Continue(st, rc, tok, bf) ==
    IF IsPanicked(tok) THEN Abort(tok.c)
    ELSE /\ state' = st
         /\ pos' = npos
         /\ reconsume' = rc
         /\ latest_token' = tok
         /\ buf' = bf
         /\ pc' = "loop"
         /\ reads' = nreads
         /\ UNCHANGED <<input, abort, ret, out, tag_at>>
         /\ UNCHANGED uvars

\* Create that leaves the latch as the read left it: the letter is not read again
Create_NoReconsume(st, start_tag_token) ==
    /\ state' = st
    /\ pos' = npos
    /\ reconsume' = FALSE
    /\ latest_token' = create_tag(start_tag_token)
    /\ tag_at' = npos
    /\ pc' = "loop"
    /\ reads' = nreads
    /\ UNCHANGED <<input, buf, abort, ret, out>>
    /\ UNCHANGED uvars

\* `self.reconsume = true; self.state = st; self.create_tag(b); continue`;
\* tag_at remembers where in the input the name of the new tag starts
Create(st, start_tag_token) ==
    /\ state' = st
    /\ pos' = npos
    /\ reconsume' = TRUE
    /\ latest_token' = create_tag(start_tag_token)
    /\ tag_at' = npos
    /\ pc' = "loop"
    /\ reads' = nreads
    /\ UNCHANGED <<input, buf, abort, ret, out>>
    /\ UNCHANGED uvars

\* `return Some(t)`, latest_token left as tok
Return(st, rc, tok, bf, t) ==
    IF IsPanicked(t) THEN Abort(t.c)
    ELSE /\ state' = st
         /\ pos' = npos
         /\ reconsume' = rc
         /\ latest_token' = tok
         /\ buf' = bf
         /\ pc' = "idle"
         /\ ret' = t
         /\ out' = Append(out, t)
         /\ reads' = nreads
         /\ UNCHANGED <<input, abort, tag_at>>
         /\ UNCHANGED uvars

\* Emit that leaves the token under construction in latest_token
Emit_Keep(st, rc, tok) == Return(st, rc, tok, buf, take_latest_token(tok))

\* `return self.take_latest_token()` when the token under construction is tok
Emit(st, rc, tok) == Return(st, rc, None, buf, take_latest_token(tok))

\* an arm runs: the pull is inside its loop, the state matches, the read succeeded
Arm(st) == pc = "loop" /\ state = st /\ CanRead

\* ------------------------------------------------ HtmlTokenizer::new
\* an input is one of these openings followed by any tail of at most MaxTail
\* characters: the empty opening gives every short input, the others put the
\* tail after an end-tag name, in an attribute list, before an attribute
\* value and after a quoted value
Stems ==
    { <<>>,
      <<"<", "/", "a">>,
      <<"<", "a", " ">>,
      <<"<", "a", " ", "1", " ">>,
      <<"<", "a", " ", "1", "=">>,
      <<"<", "A", " ", "A", "=", "\"", "A", "\"">> }

\* an opening of text and whole tags, the tail ends its end tag; and the
\* opening of an end tag, the tail may put other characters before its name
TagStems ==
    { <<"1", "<", "A", ">", "a", "<", "/", "a">>,
      <<"<", "/">> }

Tails == UNION {[1..k -> Alphabet] : k \in 0..MaxTail}

Inputs == {s \o t : s \in Stems \cup TagStems, t \in Tails}

Init ==
    /\ input \in Inputs
    /\ state = "Data"
    /\ pos = 0
    /\ reconsume = FALSE
    /\ latest_token = None
    /\ buf = <<>>
    /\ pc = "idle"
    /\ abort = "none"
    /\ ret = NotPulled
    /\ out = <<>>
    /\ tag_at = 0
    /\ reads = 0
    /\ Url_new(<<>>)

\* ------------------------------------------------ HtmlTokenizer::next
\* `if self.pos >= self.input.len() { return None; }`
NextNone ==
    /\ pc = "idle"
    /\ pos >= Len(input)
    /\ ret' = None
    /\ UNCHANGED <<input, state, pos, reconsume, latest_token, buf, pc, abort, out, tag_at, reads>>
    /\ UNCHANGED uvars

\* NextLoop with the end-of-stream test off by one (pos > len)
NextLoop_OffByOne ==
    /\ pc = "idle"
    /\ pos <= Len(input)
    /\ pc' = "loop"
    /\ UNCHANGED <<input, state, pos, reconsume, latest_token, buf, abort, ret, out, tag_at, reads>>
    /\ UNCHANGED uvars

\* the pull enters its loop
NextLoop ==
    /\ pc = "idle"
    /\ pos < Len(input)
    /\ pc' = "loop"
    /\ UNCHANGED <<input, state, pos, reconsume, latest_token, buf, abort, ret, out, tag_at, reads>>
    /\ UNCHANGED uvars

\* input[pos] or input[pos - 1] is out of bounds: the index panics
ReadAbort ==
    /\ pc = "loop"
    /\ ~CanRead
    /\ pc' = "aborted"
    /\ abort' = IF reconsume THEN "reconsume_input" ELSE "consume_next_input"
    /\ UNCHANGED <<input, state, pos, reconsume, latest_token, buf, ret, out, tag_at, reads>>
    /\ UNCHANGED uvars

Data ==
    /\ Arm("Data")
    /\ IF cur = "<" THEN Continue("TagOpen", FALSE, latest_token, buf)
       ELSE IF is_eof(npos) THEN Return(state, FALSE, latest_token, buf, Eof)
       ELSE Return(state, FALSE, latest_token, buf, Char(cur))

\* TagOpen that returns Char('<') when no tag follows the '<'
TagOpen_EmitLt ==
    /\ Arm("TagOpen")
    /\ IF cur = "/" THEN Continue("EndTagOpen", FALSE, latest_token, buf)
       ELSE IF is_ascii_alphabetic(cur) THEN Create("TagName", TRUE)
       ELSE IF is_eof(npos) THEN Return(state, FALSE, latest_token, buf, Eof)
       ELSE Return("Data", TRUE, latest_token, buf, Char("<"))

TagOpen ==
    /\ Arm("TagOpen")
    /\ IF cur = "/" THEN Continue("EndTagOpen", FALSE, latest_token, buf)
       ELSE IF is_ascii_alphabetic(cur) THEN Create("TagName", TRUE)
       ELSE IF is_eof(npos) THEN Return(state, FALSE, latest_token, buf, Eof)
       ELSE Continue("Data", TRUE, latest_token, buf)

\* EndTagOpen that gives a character that is not a letter back to Data
EndTagOpen_Data ==
    /\ Arm("EndTagOpen")
    /\ IF is_eof(npos) THEN Return(state, FALSE, latest_token, buf, Eof)
       ELSE IF is_ascii_alphabetic(cur) THEN Create("TagName", FALSE)
       ELSE Continue("Data", TRUE, latest_token, buf)

EndTagOpen ==
    /\ Arm("EndTagOpen")
    /\ IF is_eof(npos) THEN Return(state, FALSE, latest_token, buf, Eof)
       ELSE IF is_ascii_alphabetic(cur) THEN Create("TagName", FALSE)
       ELSE Continue(state, FALSE, latest_token, buf)

\* TagName that switches to ScriptData when it returns its tag
TagName_Script ==
    /\ Arm("TagName")
    /\ IF cur = " " THEN Continue("BeforeAttributeName", FALSE, latest_token, buf)
       ELSE IF cur = "/" THEN Continue("SelfClosingStartTag", FALSE, latest_token, buf)
       ELSE IF cur = ">" THEN Emit("ScriptData", FALSE, latest_token)
       ELSE IF is_ascii_uppercase(cur)
            THEN Continue(state, FALSE, append_tag_name(latest_token, to_ascii_lowercase(cur)), buf)
       ELSE IF is_eof(npos) THEN Return(state, FALSE, latest_token, buf, Eof)
       ELSE Continue(state, FALSE, append_tag_name(latest_token, cur), buf)

TagName ==
    /\ Arm("TagName")
    /\ IF cur = " " THEN Continue("BeforeAttributeName", FALSE, latest_token, buf)
       ELSE IF cur = "/" THEN Continue("SelfClosingStartTag", FALSE, latest_token, buf)
       ELSE IF cur = ">" THEN Emit("Data", FALSE, latest_token)
       ELSE IF is_ascii_uppercase(cur)
            THEN Continue(state, FALSE, append_tag_name(latest_token, to_ascii_lowercase(cur)), buf)
       ELSE IF is_eof(npos) THEN Return(state, FALSE, latest_token, buf, Eof)
       ELSE Continue(state, FALSE, append_tag_name(latest_token, cur), buf)

\* BeforeAttributeName that goes to AttributeName without starting an attribute
BeforeAttributeName_NoStart ==
    /\ Arm("BeforeAttributeName")
    /\ IF cur = "/" \/ cur = ">" \/ is_eof(npos)
       THEN Continue("AfterAttributeName", TRUE, latest_token, buf)
       ELSE Continue("AttributeName", TRUE, latest_token, buf)

BeforeAttributeName ==
    /\ Arm("BeforeAttributeName")
    /\ IF cur = "/" \/ cur = ">" \/ is_eof(npos)
       THEN Continue("AfterAttributeName", TRUE, latest_token, buf)
       ELSE Continue("AttributeName", TRUE, start_new_attribute(latest_token), buf)

\* AttributeName without the branch that folds uppercase letters
AttributeName_NoFold ==
    /\ Arm("AttributeName")
    /\ IF cur = " " \/ cur = "/" \/ cur = ">" \/ is_eof(npos)
       THEN Continue("AfterAttributeName", TRUE, latest_token, buf)
       ELSE IF cur = "=" THEN Continue("BeforeAttributeValue", FALSE, latest_token, buf)
       ELSE Continue(state, FALSE, append_attribute(latest_token, cur, TRUE), buf)

AttributeName ==
    /\ Arm("AttributeName")
    /\ IF cur = " " \/ cur = "/" \/ cur = ">" \/ is_eof(npos)
       THEN Continue("AfterAttributeName", TRUE, latest_token, buf)
       ELSE IF cur = "=" THEN Continue("BeforeAttributeValue", FALSE, latest_token, buf)
       ELSE IF is_ascii_uppercase(cur)
            THEN Continue(state, FALSE, append_attribute(latest_token, to_ascii_lowercase(cur), TRUE), buf)
       ELSE Continue(state, FALSE, append_attribute(latest_token, cur, TRUE), buf)

AfterAttributeName ==
    /\ Arm("AfterAttributeName")
    /\ IF cur = " " THEN Continue(state, FALSE, latest_token, buf)
       ELSE IF cur = "/" THEN Continue("SelfClosingStartTag", FALSE, latest_token, buf)
       ELSE IF cur = "=" THEN Continue("BeforeAttributeValue", FALSE, latest_token, buf)
       ELSE IF cur = ">" THEN Emit("Data", FALSE, latest_token)
       ELSE IF is_eof(npos) THEN Return(state, FALSE, latest_token, buf, Eof)
       ELSE Continue("AttributeName", TRUE, start_new_attribute(latest_token), buf)

BeforeAttributeValue ==
    /\ Arm("BeforeAttributeValue")
    /\ IF cur = " " THEN Continue(state, FALSE, latest_token, buf)
       ELSE IF cur = "\"" THEN Continue("AttributeValueDoubleQuoted", FALSE, latest_token, buf)
       ELSE IF cur = "'" THEN Continue("AttributeValueSingleQuoted", FALSE, latest_token, buf)
       ELSE Continue("AttributeValueUnquoted", TRUE, latest_token, buf)

AttributeValueDoubleQuoted ==
    /\ Arm("AttributeValueDoubleQuoted")
    /\ IF cur = "\"" THEN Continue("AfterAttributeValueQuoted", FALSE, latest_token, buf)
       ELSE IF is_eof(npos) THEN Return(state, FALSE, latest_token, buf, Eof)
       ELSE Continue(state, FALSE, append_attribute(latest_token, cur, FALSE), buf)

AttributeValueSingleQuoted ==
    /\ Arm("AttributeValueSingleQuoted")
    /\ IF cur = "'" THEN Continue("AfterAttributeValueQuoted", FALSE, latest_token, buf)
       ELSE IF is_eof(npos) THEN Return(state, FALSE, latest_token, buf, Eof)
       ELSE Continue(state, FALSE, append_attribute(latest_token, cur, FALSE), buf)

AttributeValueUnquoted ==
    /\ Arm("AttributeValueUnquoted")
    /\ IF cur = " " THEN Continue("BeforeAttributeName", FALSE, latest_token, buf)
       ELSE IF cur = ">" THEN Emit("Data", FALSE, latest_token)
       ELSE IF is_eof(npos) THEN Return(state, FALSE, latest_token, buf, Eof)
       ELSE Continue(state, FALSE, append_attribute(latest_token, cur, FALSE), buf)

AfterAttributeValueQuoted ==
    /\ Arm("AfterAttributeValueQuoted")
    /\ IF cur = " " THEN Continue("BeforeAttributeName", FALSE, latest_token, buf)
       ELSE IF cur = "/" THEN Continue("SelfClosingStartTag", FALSE, latest_token, buf)
       ELSE IF cur = ">" THEN Emit("Data", FALSE, latest_token)
       ELSE IF is_eof(npos) THEN Return(state, FALSE, latest_token, buf, Eof)
       ELSE Continue("BeforeAttributeValue", TRUE, latest_token, buf)

SelfClosingStartTag ==
    /\ Arm("SelfClosingStartTag")
    /\ IF cur = ">" THEN Emit("Data", FALSE, set_self_closing_flag(latest_token))
       ELSE IF is_eof(npos) THEN Return(state, FALSE, latest_token, buf, Eof)
       ELSE Continue(state, FALSE, latest_token, buf)

Next ==
    \/ NextNone
    \/ NextLoop
    \/ ReadAbort
    \/ Data
    \/ TagOpen
    \/ EndTagOpen
    \/ TagName
    \/ BeforeAttributeName
    \/ AttributeName
    \/ AfterAttributeName
    \/ BeforeAttributeValue
    \/ AttributeValueDoubleQuoted
    \/ AttributeValueSingleQuoted
    \/ AttributeValueUnquoted
    \/ AfterAttributeValueQuoted
    \/ SelfClosingStartTag

Spec == Init /\ [][Next]_vars

FairSpec == Spec /\ WF_vars(Next)

\* ------------------------------------------------ the script-data branch
ScriptData ==
    /\ Arm("ScriptData")
    /\ IF cur = "<" THEN Continue("ScriptDataLessThanSign", FALSE, latest_token, buf)
       ELSE IF is_eof(npos) THEN Return(state, FALSE, latest_token, buf, Eof)
       ELSE Return(state, FALSE, latest_token, buf, Char(cur))

ScriptDataLessThanSign ==
    /\ Arm("ScriptDataLessThanSign")
    /\ IF cur = "/" THEN Continue("ScriptDataEndTagOpen", FALSE, latest_token, <<>>)
       ELSE Return("ScriptData", TRUE, latest_token, buf, Char("<"))

ScriptDataEndTagOpen ==
    /\ Arm("ScriptDataEndTagOpen")
    /\ IF is_ascii_alphabetic(cur) THEN Create("ScriptDataEndTagName", FALSE)
       ELSE Return("ScriptData", TRUE, latest_token, buf, Char("<"))

\* ScriptDataEndTagName that appends the letter as it was read
ScriptDataEndTagName_NoFold ==
    /\ Arm("ScriptDataEndTagName")
    /\ IF cur = ">" THEN Emit("Data", FALSE, latest_token)
       ELSE IF is_ascii_alphabetic(cur)
            THEN Continue(state, FALSE,
                          append_tag_name(latest_token, cur),
                          Append(buf, cur))
       ELSE Continue("TemporaryBuffer", FALSE, latest_token,
                     <<"<", "/">> \o buf \o <<cur>>)

ScriptDataEndTagName ==
    /\ Arm("ScriptDataEndTagName")
    /\ IF cur = ">" THEN Emit("Data", FALSE, latest_token)
       ELSE IF is_ascii_alphabetic(cur)
            THEN Continue(state, FALSE,
                          append_tag_name(latest_token, to_ascii_lowercase(cur)),
                          Append(buf, cur))
       ELSE Continue("TemporaryBuffer", FALSE, latest_token,
                     <<"<", "/">> \o buf \o <<cur>>)

\* the character read at the top of the loop is not used by this arm
\* TemporaryBuffer that leaves the latch clear when its buffer is empty
TemporaryBuffer_Unlatched ==
    /\ Arm("TemporaryBuffer")
    /\ IF Len(buf) = 0 THEN Continue("ScriptData", FALSE, latest_token, buf)
       ELSE Return(state, TRUE, latest_token, Tail(buf), Char(Head(buf)))

TemporaryBuffer ==
    /\ Arm("TemporaryBuffer")
    /\ IF Len(buf) = 0 THEN Continue("ScriptData", TRUE, latest_token, buf)
       ELSE Return(state, TRUE, latest_token, Tail(buf), Char(Head(buf)))

\* the inputs of a tokenizer whose state the tree-construction layer has
\* forced to ScriptData are these openings followed by any tail: script
\* text, script text inside an end tag, and a script end tag with the
\* start of a tag, without and with attributes, after it
ScriptStems ==
    { <<>>,
      <<"<", "/", "a">>,
      <<"1", "<", "/", "A", "a">>,
      <<"<", "1", "<", "/", "A">>,
      <<"<", "/", "a", ">", "<">>,
      <<"<", "/", "a", ">", "<", "a", " ", "1", "=">>,
      <<"<", "/", "a", ">", "<", "A", " ", "A", "=", "\"", "A", "\"">> }

ScriptInputs == {s \o t : s \in ScriptStems, t \in Tails}

\* HtmlTokenizer::new followed by state := ScriptData
InitScript ==
    /\ input \in ScriptInputs
    /\ state = "ScriptData"
    /\ pos = 0
    /\ reconsume = FALSE
    /\ latest_token = None
    /\ buf = <<>>
    /\ pc = "idle"
    /\ abort = "none"
    /\ ret = NotPulled
    /\ out = <<>>
    /\ tag_at = 0
    /\ reads = 0
    /\ Url_new(<<>>)

NextScript ==
    \/ Next
    \/ ScriptData
    \/ ScriptDataLessThanSign
    \/ ScriptDataEndTagOpen
    \/ ScriptDataEndTagName
    \/ TemporaryBuffer

SpecScript == InitScript /\ [][NextScript]_vars

FairSpecScript == SpecScript /\ WF_vars(NextScript)

\* ------------------------------------------------------- Url::new, parse
\* a Url made from any of the URLs, next to a tokenizer of the empty document
InitUrl ==
    /\ \E u \in UrlInputs : Url_new(u)
    /\ input = <<>>
    /\ state = "Data"
    /\ pos = 0
    /\ reconsume = FALSE
    /\ latest_token = None
    /\ buf = <<>>
    /\ pc = "idle"
    /\ abort = "none"
    /\ ret = NotPulled
    /\ out = <<>>
    /\ tag_at = 0
    /\ reads = 0

NextUrl == parse

SpecUrl == InitUrl /\ [][NextUrl]_vars

\* ------------------------------------------------------------- notation
Tags == {"StartTag", "EndTag"}

\* the number of tokens of kind k in a sequence of tokens
CountKind(toks, k) == Cardinality({i \in 1..Len(toks) : toks[i].kind = k})

\* ------------------------------------------------------------------- C1
\* C1: no character read aborts: whenever the loop of a pull is about to
\* read, the read is in bounds (consume_next_input with pos < len(input),
\* reconsume_input with pos >= 1).
C1_ReadsInBounds == pc = "loop" => CanRead

\* ------------------------------------------------------------------- C2
\* C2: malformed input never triggers a programmer-error abort: no helper
\* that needs a token under construction (start_new_attribute,
\* append_attribute, set_self_closing_flag, take_latest_token,
\* append_tag_name) ever runs without the token it needs.
C2_NoHelperPanics ==
    abort \notin {"start_new_attribute", "append_attribute", "set_self_closing_flag",
                  "take_latest_token", "append_tag_name"}

\* ------------------------------------------------------------------- C3
\* C3: once the last character of a non-empty input is consumed, exactly
\* one Eof token is produced before the pull that signals end of stream.
C3_EofOnceBeforeEnd ==
    (ret = None /\ Len(input) > 0) => CountKind(out, "Eof") = 1

\* ------------------------------------------------------------------- C4
\* C4: a pull returns None if and only if pos >= len(input) when it
\* starts; that pull changes no field of the tokenizer, and after a pull
\* has returned None every later pull returns None.
C4_EndOfStream ==
    [][ /\ (pc = "idle" /\ pos >= Len(input))
            => (ret' = None /\ pc' = "idle"
                /\ UNCHANGED <<input, state, pos, reconsume, latest_token, buf>>)
        /\ (pc' = "idle" /\ ret' = None) => (pc = "idle" /\ pos >= Len(input))
        /\ (ret = None) => (ret' = None /\ pc' = "idle") ]_vars

\* tokens were returned, then a pull returned None
C4_Witness == ret = None /\ pc = "idle" /\ Len(out) > 0 /\ pos >= Len(input)

\* ------------------------------------------------------------------- C5
\* C5: every pull terminates by returning: a pull that has entered its
\* loop returns a token after finitely many characters, and draining the
\* tokenizer reaches the pull that returns end of stream.
C5_EveryPullReturns ==
    /\ (pc = "loop") ~> (pc = "idle")
    /\ <>(pc = "idle" /\ ret = None)

\* ------------------------------------------------------------------- C6
\* the literal text of an attribute list: ` name="value"` per attribute
RECURSIVE AttrText(_)
AttrText(as) ==
    IF as = <<>> THEN <<>>
    ELSE <<" ">> \o Head(as).name \o <<"=", "\"">> \o Head(as).value \o <<"\"">>
         \o AttrText(Tail(as))

\* the literal text of one token: the code point of a Char, "<name attrs>",
\* "<name attrs/>" or "</name>" of a tag
TokText(t) ==
    CASE t.kind = "Char" -> <<t.c>>
      [] t.kind = "StartTag" ->
            <<"<">> \o t.tag \o AttrText(t.attributes)
            \o (IF t.self_closing THEN <<"/">> ELSE <<>>) \o <<">">>
      [] t.kind = "EndTag" -> <<"<", "/">> \o t.tag \o <<">">>
      [] OTHER -> <<>>

\* the texts of the tokens, in emission order
RECURSIVE Text(_)
Text(toks) == IF toks = <<>> THEN <<>> ELSE TokText(Head(toks)) \o Text(Tail(toks))

Lower(s) == [i \in 1..Len(s) |-> to_ascii_lowercase(s[i])]

NotLayout(c) == c \notin {" ", "=", "\"", "'"}

\* a text up to case and up to the layout of attributes (spaces, '=', quotes)
Normal(s) == SelectSeq(Lower(s), NotLayout)

\* C6: when the stream has ended, the texts of the emitted tokens,
\* concatenated in emission order, are the input up to case folding and the
\* layout of attributes; no input character is dropped or duplicated.
C6_RoundTrip == (pc = "idle" /\ ret = None) => Normal(Text(out)) = Normal(input)

\* ------------------------------------------------------------------- C7
\* C7 as claimed: an emitted StartTag has self_closing = true exactly when
\* its source text ended with "/>".
C7_SelfClosingIffSlashGt ==
    (pc = "idle" /\ ret.kind = "StartTag")
        => (ret.self_closing <=> input[pos - 1] = "/")

\* C7 amended: an emitted StartTag has self_closing = true exactly when it
\* is emitted from SelfClosingStartTag, that is when a '/' was read after the
\* tag name, after an attribute name or after a quoted value; a '/' read in
\* an unquoted value is part of the value, so a StartTag emitted from an
\* unquoted value that is followed directly by "/>" has self_closing = false
\* and a value that ends with that '/'.
C7_SelfClosingIffSlashState ==
    [][ (pc = "loop" /\ pc' = "idle" /\ ret'.kind = "StartTag")
          => /\ ret'.self_closing <=> (state = "SelfClosingStartTag")
             /\ (state = "AttributeValueUnquoted" /\ input[pos' - 1] = "/")
                  => /\ ~ret'.self_closing
                     /\ LET v == ret'.attributes[Len(ret'.attributes)].value
                        IN  Len(v) > 0 /\ v[Len(v)] = "/" ]_vars

\* a StartTag whose unquoted last value is followed directly by "/>" was emitted
C7_Witness ==
    /\ pc = "idle" /\ ret.kind = "StartTag"
    /\ input[pos - 1] = "/" /\ input[pos] = ">"
    /\ ~ret.self_closing
    /\ Len(ret.attributes) > 0
    /\ ret.attributes[Len(ret.attributes)].value # <<>>

\* ------------------------------------------------------------------- C8
NoUpper(s) == \A i \in 1..Len(s) : ~is_ascii_uppercase(s[i])

\* the tag name and the attribute names of a token have no uppercase letter
Folded(t) ==
    /\ NoUpper(t.tag)
    /\ \A i \in 1..Len(t.attributes) : NoUpper(t.attributes[i].name)

\* the tag name of t is the source text from tag_at on, lower-cased
TagFromSource(t) ==
    /\ tag_at >= 1
    /\ tag_at + Len(t.tag) - 1 <= Len(input)
    /\ t.tag = Lower(SubSeq(input, tag_at, tag_at + Len(t.tag) - 1))

\* the name or the value of the attribute under construction
LastAttr(t) == t.attributes[Len(t.attributes)]

\* C8: tag names and attribute names are folded to lower case and are the
\* source names lower-cased; attribute values and Char tokens carry the
\* source characters unchanged.
C8_CaseFolding ==
    /\ [](/\ \A i \in 1..Len(out) : Folded(out[i])
          /\ Folded(latest_token)
          /\ latest_token.kind \in Tags => TagFromSource(latest_token)
          /\ (pc = "idle" /\ ret.kind \in Tags) => TagFromSource(ret)
          /\ (pc = "idle" /\ ret.kind = "Char" /\ ~reconsume) => ret.c = input[pos]
          /\ (pc = "loop" /\ state = "AttributeName" /\ ~reconsume
              /\ latest_token.kind = "StartTag")
               => LET n == LastAttr(latest_token).name
                  IN  /\ Len(n) <= pos
                      /\ n = Lower(SubSeq(input, pos - Len(n) + 1, pos)))
    /\ [][ (/\ latest_token.kind = "StartTag" /\ latest_token'.kind = "StartTag"
            /\ Len(latest_token.attributes) > 0
            /\ Len(latest_token'.attributes) = Len(latest_token.attributes)
            /\ LastAttr(latest_token').value # LastAttr(latest_token).value)
           => LastAttr(latest_token').value
                = Append(LastAttr(latest_token).value, cur) ]_vars

\* a StartTag written with an uppercase tag name, attribute name and
\* attribute value was emitted
C8_Witness ==
    /\ pc = "idle" /\ ret.kind = "StartTag"
    /\ is_ascii_uppercase(input[tag_at])
    /\ ret.tag = <<"a">>
    /\ Len(ret.attributes) > 0
    /\ ret.attributes[1].name = <<"a">>
    /\ ret.attributes[1].value = <<"A">>

\* ------------------------------------------------------------------- C9
\* The names of the attributes written in the tag text input[i..e-1], read
\* left to right: an attribute starts at the first character after the tag
\* name's space, after the space that ends a name or a value, and directly
\* after the closing quote of a value; text after a '/' is not counted.
RECURSIVE Written(_, _, _, _)
Written(i, e, mode, acc) ==
    IF i >= e THEN acc
    ELSE LET c == input[i]
             started == Append(acc, IF c = "=" THEN <<>> ELSE <<to_ascii_lowercase(c)>>)
             grown == [acc EXCEPT ![Len(acc)] = Append(@, to_ascii_lowercase(c))]
         IN CASE mode = "tag" ->
                   IF c = " " THEN Written(i + 1, e, "before", acc)
                   ELSE IF c = "/" THEN Written(i + 1, e, "slash", acc)
                   ELSE Written(i + 1, e, "tag", acc)
              [] mode \in {"before", "quoted"} ->
                   IF c = " " THEN Written(i + 1, e, "before", acc)
                   ELSE IF c = "/" THEN Written(i + 1, e, "slash", acc)
                   ELSE IF c = "=" THEN Written(i + 1, e, "value", started)
                   ELSE Written(i + 1, e, "name", started)
              [] mode = "name" ->
                   IF c = " " THEN Written(i + 1, e, "after", acc)
                   ELSE IF c = "/" THEN Written(i + 1, e, "slash", acc)
                   ELSE IF c = "=" THEN Written(i + 1, e, "value", acc)
                   ELSE Written(i + 1, e, "name", grown)
              [] mode = "after" ->
                   IF c = " " THEN Written(i + 1, e, "after", acc)
                   ELSE IF c = "/" THEN Written(i + 1, e, "slash", acc)
                   ELSE IF c = "=" THEN Written(i + 1, e, "value", acc)
                   ELSE Written(i + 1, e, "name", started)
              [] mode = "value" ->
                   IF c = " " THEN Written(i + 1, e, "value", acc)
                   ELSE IF c = "\"" THEN Written(i + 1, e, "double", acc)
                   ELSE IF c = "'" THEN Written(i + 1, e, "single", acc)
                   ELSE Written(i + 1, e, "unquoted", acc)
              [] mode = "double" ->
                   Written(i + 1, e, IF c = "\"" THEN "quoted" ELSE "double", acc)
              [] mode = "single" ->
                   Written(i + 1, e, IF c = "'" THEN "quoted" ELSE "single", acc)
              [] mode = "unquoted" ->
                   Written(i + 1, e, IF c = " " THEN "before" ELSE "unquoted", acc)
              [] OTHER -> Written(i + 1, e, "slash", acc)

AttrNames(t) == [i \in 1..Len(t.attributes) |-> t.attributes[i].name]

\* C9: the attribute list of an emitted StartTag has one entry per
\* attribute written in the tag, in source order, duplicates included; no
\* later attribute is merged into an earlier one.
C9_OneEntryPerAttribute ==
    (pc = "idle" /\ ret.kind = "StartTag")
        => AttrNames(ret) = Written(tag_at, pos, "tag", <<>>)

\* ------------------------------------------------------------------ C10
\* C10: in a start tag, (a) an attribute whose name is being read, so that
\* has met no '=', has the empty value; (b) an unquoted value is exactly the characters read since the
\* value began after the '=' (and spaces); (c) when the closing quote of a
\* quoted value is read, the value is exactly the characters between the
\* opening quote and that quote.
C10_ValueForms ==
    (pc = "loop" /\ latest_token.kind = "StartTag" /\ Len(latest_token.attributes) > 0)
      => LET v == LastAttr(latest_token).value
             n == Len(v)
         IN  /\ state = "AttributeName" => v = <<>>
             /\ (state = "AttributeValueUnquoted" /\ ~reconsume)
                  => /\ n < pos
                     /\ v = SubSeq(input, pos - n + 1, pos)
                     /\ input[pos - n] \in {"=", " "}
             /\ state = "AfterAttributeValueQuoted"
                  => /\ n + 1 < pos
                     /\ v = SubSeq(input, pos - n, pos - 1)
                     /\ input[pos - n - 1] = input[pos]


\* --------------------------------------------------------------------- C11
\* a character of a tag name after its first letter
NameChar(c) == is_ascii_alphabetic(c) \/ c = "1"

IsName(n) ==
    /\ Len(n) >= 1
    /\ is_ascii_alphabetic(n[1])
    /\ \A i \in 1..Len(n) : NameChar(n[i])

\* the index of the first c in s at or after i, 0 when there is none
RECURSIVE FirstAt(_, _, _)
FirstAt(s, c, i) ==
    IF i > Len(s) THEN 0
    ELSE IF s[i] = c THEN i
    ELSE FirstAt(s, c, i + 1)

\* where the name of the tag opened by the "<" at i starts
NameAt(s, i) == IF i < Len(s) /\ s[i + 1] = "/" THEN i + 2 ELSE i + 1

\* s from i on is text and tags of the forms <name> and </name>
RECURSIVE WellFormed(_, _)
WellFormed(s, i) ==
    IF i > Len(s) THEN TRUE
    ELSE IF s[i] # "<" THEN WellFormed(s, i + 1)
    ELSE LET e == FirstAt(s, ">", NameAt(s, i))
         IN  /\ e > 0
             /\ IsName(SubSeq(s, NameAt(s, i), e - 1))
             /\ WellFormed(s, e + 1)

\* the tokens of a well-formed s from i on, read off the text
RECURSIVE Expected(_, _)
Expected(s, i) ==
    IF i > Len(s) THEN <<>>
    ELSE IF s[i] # "<" THEN <<Char(s[i])>> \o Expected(s, i + 1)
    ELSE LET b == NameAt(s, i)
             e == FirstAt(s, ">", b)
             name == Lower(SubSeq(s, b, e - 1))
         IN  <<IF b = i + 2 THEN EndTag(name) ELSE StartTag(name, FALSE, <<>>)>>
                 \o Expected(s, e + 1)

IsPrefix(a, b) == Len(a) <= Len(b) /\ a = SubSeq(b, 1, Len(a))

\* C11: starting in Data, an input made of text and well-formed tags without
\* attributes is returned as one Char per character outside the tags, one
\* StartTag (not self-closing, no attributes) per <name> and one EndTag per
\* </name>, in source order: no pull aborts, the tokens returned so far are
\* always a prefix of that list, and they are the whole list when the input
\* is used up, so that the next pull returns end of stream.
C11_WellFormedTags ==
    WellFormed(input, 1) =>
        /\ pc # "aborted"
        /\ IsPrefix(out, Expected(input, 1))
        /\ (pc = "idle" /\ pos >= Len(input)) => out = Expected(input, 1)
        /\ ret = None => out = Expected(input, 1)

\* text, a start tag, text and an end tag have been returned, then end of stream
C11_Witness ==
    /\ WellFormed(input, 1)
    /\ pc = "idle"
    /\ ret = None
    /\ Len(out) >= 4
    /\ out[1].kind = "Char"
    /\ out[2] = StartTag(<<"a">>, FALSE, <<>>)
    /\ out[3].kind = "Char"
    /\ out[4] = EndTag(<<"a">>)
    /\ out = Expected(input, 1)

\* --------------------------------------------------------------------- C12
\* the index of the first "</" of s, 0 when there is none
FirstClose(s) ==
    IF \E i \in 1..(Len(s) - 1) : s[i] = "<" /\ s[i + 1] = "/"
    THEN CHOOSE i \in 1..(Len(s) - 1) :
            /\ s[i] = "<" /\ s[i + 1] = "/"
            /\ \A j \in 1..(i - 1) : ~(s[j] = "<" /\ s[j + 1] = "/")
    ELSE 0

\* the index of the ">" that closes the "</" at k when one or more letters
\* and nothing else stand between them, 0 otherwise
ClosedAt(s, k) ==
    LET e == FirstAt(s, ">", k + 2)
    IN  IF e > k + 2 /\ \A i \in (k + 2)..(e - 1) : is_ascii_alphabetic(s[i])
        THEN e ELSE 0

Min(a, b) == IF a <= b THEN a ELSE b

\* C12: with the state forced to ScriptData, every character before the
\* first "</" is returned as Char, in order and before the "<" of the "</"
\* is passed; when letters and a ">" follow the "</", the next token is one
\* EndTag named by those letters in lower case, no pull aborts before it,
\* and the pull that returns it has consumed the tag up to its ">" and
\* leaves state = Data with no token under construction: no character of
\* the end tag comes out as a Char.
C12_ScriptData ==
    LET k == FirstClose(input)
        e == ClosedAt(input, k)
    IN  k > 0 =>
        /\ \A i \in 1..Min(Len(out), k - 1) : out[i] = Char(input[i])
        /\ pos >= k => Len(out) >= k - 1
        /\ e > 0 =>
            /\ Len(out) < k => pc # "aborted"
            /\ pos >= e => Len(out) >= k
            /\ Len(out) >= k => out[k] = EndTag(Lower(SubSeq(input, k + 2, e - 1)))
            /\ (Len(out) = k /\ pc = "idle") =>
                    (pos = e /\ state = "Data" /\ ~reconsume /\ latest_token = None)

\* script text with a "<" in it has been returned, then the end tag of "</A>"
C12_Witness ==
    /\ FirstClose(input) = 3
    /\ ClosedAt(input, 3) = 6
    /\ is_ascii_uppercase(input[5])
    /\ pc = "idle"
    /\ state = "Data"
    /\ out = <<Char("<"), Char(input[2]), EndTag(<<"a">>)>>

\* --------------------------------------------------------------------- C13
\* C13: no tag token returned by a pull has an empty name: every StartTag
\* and EndTag among the returned tokens, whichever state returned it, has a
\* tag of length 1 or more.
C13_TagNameNotEmpty ==
    \A i \in 1..Len(out) : out[i].kind \in Tags => Len(out[i].tag) >= 1

\* tags with a name of one letter have been returned from the script-data
\* end-tag state and, after it, from a state of the markup
C13_Witness ==
    /\ pc = "idle"
    /\ Len(out) >= 2
    /\ out[1] = EndTag(<<"a">>)
    /\ ret.kind = "StartTag"
    /\ Len(ret.tag) = 1
    /\ Len(ret.attributes) > 0

\* --------------------------------------------------------------------- C14
\* C14: the latch never makes the same position be read three times in
\* succession: between two advances of pos the character at pos - 1 is
\* delivered to the state machine at most twice.
C14_AtMostTwice == reads <= 2

\* C14, amended: a position is delivered a third time only
\* (a) to AttributeValueUnquoted, after AfterAttributeValueQuoted and
\*     BeforeAttributeValue have both handed the character on: it becomes
\*     the last character of the value and is not delivered again;
\* (b) to AfterAttributeName, when the character is a space that follows a
\*     space of the attribute list: BeforeAttributeName starts an attribute
\*     for it and AttributeName hands it on; the attribute has no name;
\* (c) while TemporaryBuffer returns its buffer: the character after the one
\*     that ended the end-tag name is delivered once per buffered character
\*     ("</", the letters of the name, the character that ended it), once
\*     more when the buffer is empty and a last time to ScriptData.
C14_ReadsBounded ==
    reads >= 3 =>
        \/ /\ state = "AttributeValueUnquoted"
           /\ reads = 3
           /\ ~reconsume
           /\ latest_token.kind = "StartTag"
           /\ Len(LastAttr(latest_token).value) >= 1
           /\ LastAttr(latest_token).value[Len(LastAttr(latest_token).value)] = input[pos]
        \/ /\ state = "AfterAttributeName"
           /\ reads = 3
           /\ ~reconsume
           /\ input[pos] = " "
           /\ input[pos - 1] = " "
           /\ latest_token.kind = "StartTag"
           /\ LastAttr(latest_token).name = <<>>
        \/ /\ state = "TemporaryBuffer"
           /\ reconsume
           /\ reads + Len(buf) = pos - tag_at + 2
        \/ /\ state \in {"ScriptData", "ScriptDataLessThanSign"}
           /\ buf = <<>>
           /\ reads = pos - tag_at + (IF reconsume THEN 3 ELSE 4)

\* TemporaryBuffer has returned "</", a name and the character after it, and
\* ScriptData has returned the character that was delivered all the while
C14_Witness ==
    /\ reads >= 6
    /\ state = "ScriptData"
    /\ pc = "idle"
    /\ ~reconsume
    /\ ret = Char(input[pos])
    /\ Len(out) >= 5
    /\ out[Len(out) - 4] = Char("/")

\* --------------------------------------------------------------------- C15
\* C15: in every reachable state 0 <= pos <= len(input), and the latch is
\* set only when pos >= 1, so that reading with the latch set never fails;
\* pos never decreases (a step adds 0 or 1); a read with the latch set
\* leaves pos as it is and delivers input[pos - 1] (seen where the
\* character delivered is returned as a Char or appended to a tag name),
\* and it clears the latch: the latch is set after it only when the arm
\* hands the character on to another state or is TemporaryBuffer.
C15_PosAndLatch ==
    /\ [](/\ pos \in 0..Len(input)
          /\ reconsume => pos >= 1
          /\ abort # "reconsume_input")
    /\ [][ /\ pos' \in {pos, pos + 1}
           /\ (pc = "loop" /\ reconsume) =>
                 /\ pos' = pos
                 /\ (state \in {"Data", "ScriptData"} /\ pc' = "idle")
                        => (ret' = Char(input[pos]) /\ ~reconsume')
                 /\ (state = "TagName" /\ latest_token'.tag # latest_token.tag)
                        => latest_token'.tag
                             = Append(latest_token.tag, to_ascii_lowercase(input[pos]))
                 /\ (reconsume' /\ pc' # "aborted")
                        => (state' # state \/ state = "TemporaryBuffer")
         ]_vars

\* a character read with the latch set has been returned by Data
C15_Witness ==
    /\ reads = 2
    /\ ~reconsume
    /\ pc = "idle"
    /\ state = "Data"
    /\ pos >= 1
    /\ ret = Char(input[pos])

\* --------------------------------------------------------------------- C16
\* the positions of "<" among the first n characters of s
OpenedIn(s, n) == {i \in 1..n : s[i] = "<"}

\* C16: a pull that returns a StartTag or an EndTag returns the token under
\* construction (with the self-closing flag set when it is returned from
\* SelfClosingStartTag), leaves latest_token absent and state = Data, and
\* adds it once to what has been returned; between pulls a returned tag is
\* never still under construction, and no more tags have been returned than
\* "<" have been read, so no tag is returned twice.
C16_EmitOnce ==
    /\ []((pc = "idle" /\ ret.kind \in Tags) => (latest_token = None /\ state = "Data"))
    /\ [](CountKind(out, "StartTag") + CountKind(out, "EndTag")
            <= Cardinality(OpenedIn(input, pos)))
    /\ [][ (pc = "loop" /\ pc' = "idle" /\ ret'.kind \in Tags) =>
             /\ latest_token # None
             /\ ret' = IF state = "SelfClosingStartTag"
                       THEN [latest_token EXCEPT !.self_closing = TRUE]
                       ELSE latest_token
             /\ latest_token' = None
             /\ state' = "Data"
             /\ out' = Append(out, ret')
         ]_vars

\* two pulls have returned two tags
C16_Witness ==
    /\ pc = "idle"
    /\ Len(out) >= 2
    /\ out[1].kind = "EndTag"
    /\ ret.kind = "StartTag"
    /\ ret.self_closing
    /\ latest_token = None

\* --------------------------------------------------------------------- C17
\* "http://" is written somewhere in s
HasHttp(s) ==
    \E i \in 1..(Len(s) - 6) :
        /\ s[i] = "h" /\ s[i + 1] = "t" /\ s[i + 2] = "t" /\ s[i + 3] = "p"
        /\ s[i + 4] = ":" /\ s[i + 5] = "/" /\ s[i + 6] = "/"

\* C17: parse returns Err("Only HTTP scheme is supported.") exactly when
\* its URL does not contain "http://" anywhere; every URL that contains it,
\* at the start or not, returns Ok; parse returns no other error.
C17_OnlyError ==
    result # NotParsed =>
        /\ result.kind \in {"Ok", "Err"}
        /\ result.kind = "Err" <=> ~HasHttp(url)
        /\ result.kind = "Err" => result.err = "Only HTTP scheme is supported."

\* a URL with "http://" after its first character has been parsed
C17_Witness ==
    /\ result.kind = "Ok"
    /\ Len(url) >= 8
    /\ url[1] = "a"
    /\ SubSeq(url, 2, 8) = Http

\* --------------------------------------------------------------------- C18
\* s without one leading "http://"
StripOnce(s) == IF starts_with(s, Http) THEN SubSeq(s, 8, Len(s)) ELSE s

\* the text before the first "/"
Authority(r) ==
    IF FirstAt(r, "/", 1) = 0 THEN r ELSE SubSeq(r, 1, FirstAt(r, "/", 1) - 1)

HostOf(r) ==
    LET a == Authority(r)
        c == FirstAt(a, ":", 1)
    IN  IF c = 0 THEN a ELSE SubSeq(a, 1, c - 1)

PortOf(r) ==
    LET a == Authority(r)
        c == FirstAt(a, ":", 1)
    IN  IF c = 0 THEN <<"8", "0">> ELSE SubSeq(a, c + 1, Len(a))

\* the index of the first "?" after the first "/", 0 when there is none
QueryAt(r) ==
    IF FirstAt(r, "/", 1) = 0 THEN 0 ELSE FirstAt(r, "?", FirstAt(r, "/", 1) + 1)

PathOf(r) ==
    LET s == FirstAt(r, "/", 1)
    IN  IF s = 0 THEN <<>>
        ELSE IF QueryAt(r) = 0 THEN SubSeq(r, s + 1, Len(r))
        ELSE SubSeq(r, s + 1, QueryAt(r) - 1)

SearchpartOf(r) ==
    IF QueryAt(r) = 0 THEN <<>> ELSE SubSeq(r, QueryAt(r) + 1, Len(r))

\* the record whose fields are read off the text r that follows the scheme
Decomposed(u, r) == Url(u, HostOf(r), PortOf(r), PathOf(r), SearchpartOf(r))

\* C18: after a successful parse of a URL whose scheme is written at most
\* once at its start, the fields are read off the text after the scheme:
\* the authority is the text before the first "/"; the host is the authority
\* up to its first ":" and the port what follows that ":" (empty when
\* nothing follows), or the host is the authority and the port "80"; the
\* path runs from the first "/" to the first "?" after it and the
\* searchpart is what follows that "?"; both are empty when absent, and a
\* later "/" is part of the path.  The record returned is the record kept.
C18_Decomposition ==
    (result.kind = "Ok" /\ ~starts_with(StripOnce(url), Http)) =>
        /\ result.val = Decomposed(url, StripOnce(url))
        /\ Url(url, host, port, path, searchpart) = result.val

\* host, port, a path with a second "/" and a searchpart have been split off
C18_Witness ==
    /\ result.kind = "Ok"
    /\ starts_with(url, Http)
    /\ host = <<"a">>
    /\ port = <<"8">>
    /\ path = <<"a", "/">>
    /\ searchpart = <<"a">>

\* --------------------------------------------------------------------- C19
\* C19: after every successful parse the port is not empty and the host is
\* not empty.
C19_HostPortNonEmpty ==
    result.kind = "Ok" => (Len(port) >= 1 /\ Len(host) >= 1)

\* --------------------------------------------------------------------- C20
\* C20: parse strips one leading "http://", if there is one, and computes
\* the four fields from what remains: a URL that starts with "http://"
\* twice loses only the first, and a URL that does not start with "http://"
\* is split as it is.
C20_StripsOnePrefix ==
    result.kind = "Ok" =>
        Url(url, host, port, path, searchpart) = Decomposed(url, StripOnce(url))

\* --------------------------------------------------------------------- C21
ScriptStates ==
    {"ScriptData", "ScriptDataLessThanSign", "ScriptDataEndTagOpen",
     "ScriptDataEndTagName", "TemporaryBuffer"}

\* C21: the tokenizer does not enter the script-data states by itself.  A
\* tokenizer made by new() is in Data with an empty buf; no step taken in a
\* state outside the script-data states, whatever the input and whatever tag
\* it returns, leads into one of them or changes buf.  So from Data these
\* states are never reached and buf stays empty; they are reached only when
\* the state has been set to ScriptData from outside.
C21_NoScriptFromData ==
    [][ state \notin ScriptStates => (state' \notin ScriptStates /\ buf' = buf) ]_vars

\* the tokenizer was put into ScriptData, has left it with an end tag and has
\* returned a start tag in Data, where it stays
C21_Witness ==
    /\ Len(out) >= 2
    /\ out[1].kind = "EndTag"
    /\ ret.kind = "StartTag"
    /\ state = "Data"
    /\ pc = "idle"

\* --------------------------------------------------------------------- C22
\* C22: latest_token is present only during the lifetime of a tag: at every
\* pull boundary at which the state is Data or ScriptData it is absent,
\* also after the look-ahead for a script-data end tag has failed.
C22_TokenLifetime ==
    (pc = "idle" /\ state \in {"Data", "ScriptData"}) => latest_token = None

\* --------------------------------------------------------------------- C23
\* the arm of state st has read a character that ends its look-ahead
LookaheadEnds ==
    \/ Arm("ScriptDataLessThanSign") /\ cur # "/"
    \/ Arm("ScriptDataEndTagOpen") /\ ~is_ascii_alphabetic(cur)

\* C23: in script data, "<" followed by a character other than "/", and
\* "</" followed by a character that is not a letter, return one Char("<")
\* and nothing for the "/", with the state back at ScriptData and the
\* character that followed held by the latch; the next pull delivers that
\* character to ScriptData.
C23_ScriptLessThan ==
    /\ [][ LookaheadEnds =>
             /\ pc' = "idle"
             /\ ret' = Char("<")
             /\ out' = Append(out, Char("<"))
             /\ state' = "ScriptData"
             /\ reconsume'
             /\ pos' = npos
         ]_vars
    /\ (pc = "idle" /\ state = "ScriptData" /\ reconsume)
          ~> (reads >= 2 /\ ~reconsume /\ pc # "aborted"
                /\ state \in {"ScriptData", "ScriptDataLessThanSign"})

\* --------------------------------------------------------------------- C24
\* the Char tokens of the characters of s
Chars(s) == [i \in 1..Len(s) |-> Char(s[i])]

\* the last n elements of seq, all of it when it is shorter
Suffix(seq, n) == SubSeq(seq, IF n >= Len(seq) THEN 1 ELSE Len(seq) - n + 1, Len(seq))

\* TemporaryBuffer has just been entered: the look-ahead has failed
LookaheadFailed == pc = "loop" /\ state = "TemporaryBuffer" /\ ~reconsume

\* the buffer has been returned and ScriptData has had the character after
\* the one that ended the name; pos is at that character
Resumed ==
    LET failed == <<"<", "/">> \o SubSeq(input, tag_at, pos - 1)
    IN  /\ buf = <<>>
        /\ ~reconsume
        /\ reads = pos - tag_at + 4
        /\ \/ /\ state = "ScriptData"
              /\ pc = "idle"
              /\ Suffix(out, Len(failed) + 1) = Chars(failed) \o <<Char(input[pos])>>
           \/ /\ state = "ScriptDataLessThanSign"
              /\ input[pos] = "<"
              /\ Suffix(out, Len(failed)) = Chars(failed)

\* C24: when the look-ahead for a script-data end tag fails ("</", letters
\* and then a character c that is neither ">" nor a letter), buf is "</",
\* the letters as written and c; the pulls that follow return the
\* characters of buf as Char tokens, in order, and leave buf empty, and the
\* tokenizer resumes in ScriptData with the character after c, which comes
\* out once (or opens the next look-ahead when it is "<").
C24_FlushBuffer ==
    /\ [](LookaheadFailed => buf = <<"<", "/">> \o SubSeq(input, tag_at, pos))
    /\ LookaheadFailed ~> Resumed

\* --------------------------------------------------------------------- C25
\* the index of the first ASCII letter of s at or after i, 0 when there is none
RECURSIVE FirstLetterAt(_, _)
FirstLetterAt(s, i) ==
    IF i > Len(s) THEN 0
    ELSE IF is_ascii_alphabetic(s[i]) THEN i
    ELSE FirstLetterAt(s, i + 1)

\* C25: in EndTagOpen a character that is not a letter is consumed and
\* nothing else happens: no token, the same state, no tag created; the
\* first letter creates an EndTag and is read again by TagName.  So an input
\* that starts with "</", any characters that are not letters, a name and
\* ">" returns EndTag(name) as its first token, when the ">" is read.
C25_EndTagOpenSwallows ==
    /\ [][ Arm("EndTagOpen") =>
             IF is_ascii_alphabetic(cur)
             THEN /\ latest_token' = EndTag(<<>>)
                  /\ state' = "TagName"
                  /\ reconsume'
                  /\ pc' = "loop"
                  /\ out' = out
             ELSE /\ state' = "EndTagOpen"
                  /\ ~reconsume'
                  /\ pos' = pos + 1
                  /\ pc' = "loop"
                  /\ out' = out
                  /\ latest_token' = latest_token
         ]_vars
    /\ [](LET j == FirstLetterAt(input, 3)
              e == FirstAt(input, ">", j)
          IN  (/\ Len(input) >= 2 /\ input[1] = "<" /\ input[2] = "/"
               /\ j > 0 /\ e > 0 /\ IsName(SubSeq(input, j, e - 1)))
              => /\ pos < e => (out = <<>> /\ pc # "aborted")
                 /\ pos >= e => out[1] = EndTag(Lower(SubSeq(input, j, e - 1))))

\* characters between "</" and the name have been passed over and the end
\* tag has been returned
C25_Witness ==
    /\ Len(input) >= 5
    /\ input[1] = "<"
    /\ input[2] = "/"
    /\ input[3] = ">"
    /\ pc = "idle"
    /\ out = <<EndTag(<<"a">>)>>

\* --------------------------------------------------------------------- C26
\* C26: in TagOpen a character that is neither "/" nor a letter sends the
\* tokenizer back to Data with the latch set, inside the same pull, with no
\* token returned and none under construction; Data then gets the same
\* character: it returns Char of it, or goes to TagOpen again when it is
\* "<".  No Char("<") is returned for the "<" that led to TagOpen.
C26_TagOpenElse ==
    [][ /\ (Arm("TagOpen") /\ cur # "/" /\ ~is_ascii_alphabetic(cur)) =>
             /\ state' = "Data"
             /\ reconsume'
             /\ pc' = "loop"
             /\ pos' = npos
             /\ out' = out
             /\ latest_token' = None
        /\ (Arm("Data") /\ reconsume) =>
             /\ pos' = pos
             /\ ~reconsume'
             /\ latest_token' = None
             /\ IF input[pos] = "<"
                THEN state' = "TagOpen" /\ pc' = "loop" /\ out' = out
                ELSE /\ state' = "Data"
                     /\ pc' = "idle"
                     /\ ret' = Char(input[pos])
                     /\ out' = Append(out, ret')
      ]_vars

\* "<" and a digit have been read: the digit is the only token returned
C26_Witness ==
    /\ Len(input) >= 2
    /\ input[1] = "<"
    /\ input[2] = "1"
    /\ pos = 2
    /\ reads = 2
    /\ pc = "idle"
    /\ state = "Data"
    /\ out = <<Char("1")>>

\* --------------------------------------------------------------------- C27
\* C27: nothing is pending when the stream ends: at every pull boundary
\* with pos >= len(input), where the next pull returns end of stream, the
\* latch is clear and buf is empty, so no character read for reconsumption
\* or stored to be returned is lost.
C27_NothingPending ==
    (pc = "idle" /\ pos >= Len(input)) => (~reconsume /\ buf = <<>>)

\* --------------------------------------------------------------------- C28
AttrStates ==
    {"AttributeName", "BeforeAttributeValue", "AttributeValueDoubleQuoted",
     "AttributeValueSingleQuoted", "AttributeValueUnquoted", "AfterAttributeValueQuoted"}

\* as is bs with one character appended to the name or to the value of its
\* last attribute
GrownLast(as, bs) ==
    /\ Len(as) = Len(bs)
    /\ Len(bs) >= 1
    /\ SubSeq(as, 1, Len(as) - 1) = SubSeq(bs, 1, Len(bs) - 1)
    /\ \E c \in Alphabet :
          \/ as[Len(as)] = add_char(bs[Len(bs)], c, TRUE)
          \/ as[Len(as)] = add_char(bs[Len(bs)], c, FALSE)

\* C28: whenever the tokenizer is in AttributeName, BeforeAttributeValue,
\* one of the three attribute-value states or AfterAttributeValueQuoted,
\* the token under construction is a StartTag whose attribute list is not
\* empty; so append_attribute never fails, and every change to the
\* attributes of a token either starts a new last attribute or appends one
\* character to the last one, leaving the others as they are.
C28_AttributeListNonEmpty ==
    /\ []((state \in AttrStates /\ pc # "aborted")
            => (latest_token.kind = "StartTag" /\ Len(latest_token.attributes) > 0))
    /\ [](abort # "append_attribute")
    /\ [][ (latest_token.kind = "StartTag" /\ latest_token'.kind = "StartTag"
              /\ latest_token'.attributes # latest_token.attributes) =>
             \/ latest_token'.attributes = Append(latest_token.attributes, Attribute_new)
             \/ /\ state \in AttrStates
                /\ GrownLast(latest_token'.attributes, latest_token.attributes)
         ]_vars

\* a second attribute has been started and its name is being appended to,
\* the first is as it was
C28_Witness ==
    /\ state = "AttributeName"
    /\ pc = "loop"
    /\ latest_token.kind = "StartTag"
    /\ Len(latest_token.attributes) = 2
    /\ latest_token.attributes[1] = [name |-> <<"a">>, value |-> <<"A">>]
    /\ latest_token.attributes[2] = [name |-> <<"a">>, value |-> <<>>]

\* --------------------------------------------------------------------- C29
\* C29: a call of parse that returns Err leaves host, port, path and
\* searchpart as they were before the call, which is empty, as new() made
\* them; and no call of parse, failing or not, changes the stored url.
C29_FailedParseKeeps ==
    /\ [][ /\ url' = url
           /\ result'.kind = "Err" => UNCHANGED <<host, port, path, searchpart>>
         ]_vars
    /\ [](result.kind = "Err" =>
            (host = <<>> /\ port = <<>> /\ path = <<>> /\ searchpart = <<>>))

\* parse has failed on a text that has a host, a port and a path to extract
C29_Witness ==
    /\ result.kind = "Err"
    /\ extract_host(url) # <<>>
    /\ extract_path(url) # <<>>
    /\ contains(url, <<":">>)
    /\ host = <<>>

\* --------------------------------------------------------------------- C30
\* The copy of the tokenizer in src/renderer/html/token.rs: the same struct,
\* the same pull and the same helpers (consume_next_input, reconsume_input,
\* create_tag, append_tag_name, take_latest_token, start_new_attribute,
\* set_self_closing_flag and is_eof are the full tokenizer's, line for line),
\* twelve arms and `_ => {}` for the other states.  Its arms are written
\* here as steps over the same fields.  The copy calls append_attribute in
\* its three attribute-value arms without defining it; the calls are those
\* of the only append_attribute of the repository.

\* `if self.pos >= self.input.len() { return None; }`
Copy_NextNone ==
    /\ pc = "idle"
    /\ pos >= Len(input)
    /\ ret' = None
    /\ UNCHANGED <<input, state, pos, reconsume, latest_token, buf, pc, abort, out, tag_at, reads>>
    /\ UNCHANGED uvars

\* the pull of the copy enters its loop
Copy_NextLoop ==
    /\ pc = "idle"
    /\ ~(pos >= Len(input))
    /\ pc' = "loop"
    /\ UNCHANGED <<input, state, pos, reconsume, latest_token, buf, abort, ret, out, tag_at, reads>>
    /\ UNCHANGED uvars

\* the read of the copy indexes out of bounds
Copy_ReadAbort ==
    /\ pc = "loop"
    /\ ~CanRead
    /\ pc' = "aborted"
    /\ abort' = IF reconsume THEN "reconsume_input" ELSE "consume_next_input"
    /\ UNCHANGED <<input, state, pos, reconsume, latest_token, buf, ret, out, tag_at, reads>>
    /\ UNCHANGED uvars

Copy_Data ==
    /\ Arm("Data")
    /\ IF cur = "<" THEN Continue("TagOpen", FALSE, latest_token, buf)
       ELSE IF is_eof(npos) THEN Return("Data", FALSE, latest_token, buf, Eof)
       ELSE Return("Data", FALSE, latest_token, buf, Char(cur))

Copy_TagOpen ==
    /\ Arm("TagOpen")
    /\ IF cur = "/" THEN Continue("EndTagOpen", FALSE, latest_token, buf)
       ELSE IF is_ascii_alphabetic(cur) THEN Create("TagName", TRUE)
       ELSE IF is_eof(npos) THEN Return("TagOpen", FALSE, latest_token, buf, Eof)
       ELSE Continue("Data", TRUE, latest_token, buf)

Copy_EndTagOpen ==
    /\ Arm("EndTagOpen")
    /\ IF is_eof(npos) THEN Return("EndTagOpen", FALSE, latest_token, buf, Eof)
       ELSE IF is_ascii_alphabetic(cur) THEN Create("TagName", FALSE)
       ELSE Continue("EndTagOpen", FALSE, latest_token, buf)

\* the copy's TagName without the branch that folds uppercase letters
Copy_TagName_NoFold ==
    /\ Arm("TagName")
    /\ IF cur = " " THEN Continue("BeforeAttributeName", FALSE, latest_token, buf)
       ELSE IF cur = "/" THEN Continue("SelfClosingStartTag", FALSE, latest_token, buf)
       ELSE IF cur = ">" THEN Emit("Data", FALSE, latest_token)
       ELSE IF is_eof(npos) THEN Return("TagName", FALSE, latest_token, buf, Eof)
       ELSE Continue("TagName", FALSE, append_tag_name(latest_token, cur), buf)

Copy_TagName ==
    /\ Arm("TagName")
    /\ IF cur = " " THEN Continue("BeforeAttributeName", FALSE, latest_token, buf)
       ELSE IF cur = "/" THEN Continue("SelfClosingStartTag", FALSE, latest_token, buf)
       ELSE IF cur = ">" THEN Emit("Data", FALSE, latest_token)
       ELSE IF is_ascii_uppercase(cur)
            THEN Continue("TagName", FALSE, append_tag_name(latest_token, to_ascii_lowercase(cur)), buf)
       ELSE IF is_eof(npos) THEN Return("TagName", FALSE, latest_token, buf, Eof)
       ELSE Continue("TagName", FALSE, append_tag_name(latest_token, cur), buf)

Copy_BeforeAttributeName ==
    /\ Arm("BeforeAttributeName")
    /\ IF cur = "/" \/ cur = ">" \/ is_eof(npos)
       THEN Continue("AfterAttributeName", TRUE, latest_token, buf)
       ELSE Continue("AttributeName", TRUE, start_new_attribute(latest_token), buf)

Copy_AfterAttributeName ==
    /\ Arm("AfterAttributeName")
    /\ IF cur = " " THEN Continue("AfterAttributeName", FALSE, latest_token, buf)
       ELSE IF cur = "/" THEN Continue("SelfClosingStartTag", FALSE, latest_token, buf)
       ELSE IF cur = "=" THEN Continue("BeforeAttributeValue", FALSE, latest_token, buf)
       ELSE IF cur = ">" THEN Emit("Data", FALSE, latest_token)
       ELSE IF is_eof(npos) THEN Return("AfterAttributeName", FALSE, latest_token, buf, Eof)
       ELSE Continue("AttributeName", TRUE, start_new_attribute(latest_token), buf)

Copy_BeforeAttributeValue ==
    /\ Arm("BeforeAttributeValue")
    /\ IF cur = " " THEN Continue("BeforeAttributeValue", FALSE, latest_token, buf)
       ELSE IF cur = "\"" THEN Continue("AttributeValueDoubleQuoted", FALSE, latest_token, buf)
       ELSE IF cur = "'" THEN Continue("AttributeValueSingleQuoted", FALSE, latest_token, buf)
       ELSE Continue("AttributeValueUnquoted", TRUE, latest_token, buf)

Copy_AttributeValueDoubleQuoted ==
    /\ Arm("AttributeValueDoubleQuoted")
    /\ IF cur = "\"" THEN Continue("AfterAttributeValueQuoted", FALSE, latest_token, buf)
       ELSE IF is_eof(npos) THEN Return("AttributeValueDoubleQuoted", FALSE, latest_token, buf, Eof)
       ELSE Continue("AttributeValueDoubleQuoted", FALSE, append_attribute(latest_token, cur, FALSE), buf)

Copy_AttributeValueSingleQuoted ==
    /\ Arm("AttributeValueSingleQuoted")
    /\ IF cur = "'" THEN Continue("AfterAttributeValueQuoted", FALSE, latest_token, buf)
       ELSE IF is_eof(npos) THEN Return("AttributeValueSingleQuoted", FALSE, latest_token, buf, Eof)
       ELSE Continue("AttributeValueSingleQuoted", FALSE, append_attribute(latest_token, cur, FALSE), buf)

Copy_AttributeValueUnquoted ==
    /\ Arm("AttributeValueUnquoted")
    /\ IF cur = " " THEN Continue("BeforeAttributeName", FALSE, latest_token, buf)
       ELSE IF cur = ">" THEN Emit("Data", FALSE, latest_token)
       ELSE IF is_eof(npos) THEN Return("AttributeValueUnquoted", FALSE, latest_token, buf, Eof)
       ELSE Continue("AttributeValueUnquoted", FALSE, append_attribute(latest_token, cur, FALSE), buf)

Copy_AfterAttributeValueQuoted ==
    /\ Arm("AfterAttributeValueQuoted")
    /\ IF cur = " " THEN Continue("BeforeAttributeName", FALSE, latest_token, buf)
       ELSE IF cur = "/" THEN Continue("SelfClosingStartTag", FALSE, latest_token, buf)
       ELSE IF cur = ">" THEN Emit("Data", FALSE, latest_token)
       ELSE IF is_eof(npos) THEN Return("AfterAttributeValueQuoted", FALSE, latest_token, buf, Eof)
       ELSE Continue("BeforeAttributeValue", TRUE, latest_token, buf)

Copy_SelfClosingStartTag ==
    /\ Arm("SelfClosingStartTag")
    /\ IF cur = ">" THEN Emit("Data", FALSE, set_self_closing_flag(latest_token))
       ELSE IF is_eof(npos) THEN Return("SelfClosingStartTag", FALSE, latest_token, buf, Eof)
       ELSE Continue("SelfClosingStartTag", FALSE, latest_token, buf)

\* `_ => {}`: AttributeName and the script-data states only read
Copy_Other ==
    /\ pc = "loop"
    /\ state \in {"AttributeName"} \cup ScriptStates
    /\ CanRead
    /\ Continue(state, FALSE, latest_token, buf)

Copy_next ==
    \/ Copy_NextNone
    \/ Copy_NextLoop
    \/ Copy_ReadAbort
    \/ Copy_Data
    \/ Copy_TagOpen
    \/ Copy_EndTagOpen
    \/ Copy_TagName
    \/ Copy_BeforeAttributeName
    \/ Copy_AfterAttributeName
    \/ Copy_BeforeAttributeValue
    \/ Copy_AttributeValueDoubleQuoted
    \/ Copy_AttributeValueSingleQuoted
    \/ Copy_AttributeValueUnquoted
    \/ Copy_AfterAttributeValueQuoted
    \/ Copy_SelfClosingStartTag
    \/ Copy_Other

\* C30: from every state the full tokenizer reaches in which it is not in
\* AttributeName or a script-data state, the step the full tokenizer takes
\* is the step the copy takes from the same fields: the same token is
\* returned, if one is, and state, pos, reconsume and latest_token are the
\* same afterwards.  The copy's step is determined by the fields, so on an
\* input on which the full tokenizer never enters AttributeName or a
\* script-data state the two return the same tokens, pull for pull, and end
\* with the same fields.
C30_CopiesAgree ==
    [][ state \notin ({"AttributeName"} \cup ScriptStates) => Copy_next ]_vars

\* an input without a space, so that no attribute is ever started, has been
\* read to its end and has returned a start tag, an end tag and a character
C30_Witness ==
    /\ pc = "idle"
    /\ ret = None
    /\ pos >= Len(input)
    /\ \A i \in 1..Len(input) : input[i] # " "
    /\ \E i \in 1..Len(out) : out[i].kind = "StartTag"
    /\ \E i \in 1..Len(out) : out[i].kind = "EndTag"
    /\ \E i \in 1..Len(out) : out[i].kind = "Char"
====
